---------------------------- MODULE Spec2Model ----------------------------
(***************************************************************************)
(* Wallet client adapters of xchainjs-lib: the per-client address cache,   *)
(* the transfer pipeline of the UTXO / Binance / Cosmos / THORChain        *)
(* clients, UTXO coin selection and fee calculation, and the pagination    *)
(* of getTransactions.                                                     *)
(***************************************************************************)
EXTENDS Integers, Sequences, FiniteSets, TLC

VARIABLES
    chain,      \* which client class this instance is
    network,    \* Client.network
    phrase,     \* Client.phrase
    addrCache,  \* Client.addrCache : phrase -> (index -> address)
    result,     \* outcome of the last wallet call (setPhrase, getAddress, ...)
    pc,         \* position of the transfer / deposit call in flight
    tx,         \* locals of the transfer / deposit call in flight
    log,        \* pipeline steps the call in flight has executed, in order
    utxos,      \* the sender's UTXO list as the explorer API returns it
    feeCalls,   \* the last two calcFee calls (arguments and results)
    pg,         \* the last getTransactions call (arguments, history, page)
    eth,        \* the last Ethereum transfer call (arguments, overrides, outcome)
    bal,        \* the last getBalance call (account state, filter, result)
    rl,         \* the Binance transaction search in flight (requests, answers)
    fees,       \* the last getDefaultFees call (package, network, fees)
    ga          \* a get-address module: its process-wide cache and its calls

callVars == <<eth, bal, rl, fees, ga>>

vars == <<chain, network, phrase, addrCache, result, pc, tx, log, utxos, feeCalls, pg, callVars>>

walletVars == <<chain, network, phrase, addrCache, result>>
txVars == <<pc, tx, log>>
clientVars == <<walletVars, txVars, utxos, feeCalls, pg>>

-----------------------------------------------------------------------------
(* Bounds                                                                  *)

MaxIndex == 1
MaxUtxo == 2
MaxFeeRate == 2
MaxInputs == 2
MaxHist == 3
MaxOffset == 2
MaxLimit == 2
MaxGas == 2
MaxBal == 2
MaxAmount == 1
MaxRetry == 3
MaxCalls == 3

-----------------------------------------------------------------------------
(* Clients, networks, phrases                                              *)

Chains == {"btc", "bch", "bnb", "cosmos", "thor"}
UtxoChains == {"btc", "bch"}
Networks == {"testnet", "mainnet"}

ValidPhrases == {"p1"}
PhraseArgs == ValidPhrases \cup {"", "bad"}
Indices == 0..MaxIndex

\* bip39 validation of @thorwallet/xchain-crypto: only well-formed mnemonics pass
validatePhrase(p) == p \in ValidPhrases

NoAddr == <<>>

\* rootDerivationPaths of each client, per network
rootDerivationPaths(c, net) ==
    CASE c = "btc"    -> IF net = "mainnet" THEN "84'/0'/0'/0/" ELSE "84'/1'/0'/0/"
      [] c = "bch"    -> IF net = "mainnet" THEN "m/44'/145'/0'/0/" ELSE "m/44'/1'/0'/0/"
      [] c = "cosmos" -> IF net = "mainnet" THEN "44'/118'/0'/0/" ELSE "44'/118'/1'/0/"
      [] c = "thor"   -> "44'/931'/0'/0/"
      [] c = "bnb"    -> "44'/714'/0'/0/"

getFullDerivationPath(c, net, index) == <<rootDerivationPaths(c, net), index>>

\* the network-dependent encoding parameter of an address
\* (btcNetwork / bchNetwork, bech32 prefix)
getPrefix(c, net) ==
    CASE c = "btc"    -> IF net = "mainnet" THEN "bc" ELSE "tb"
      [] c = "bch"    -> IF net = "mainnet" THEN "bitcoincash" ELSE "bchtest"
      [] c = "cosmos" -> "cosmos"
      [] c = "thor"   -> IF net = "testnet" THEN "tthor" ELSE "thor"
      [] c = "bnb"    -> IF net = "testnet" THEN "tbnb" ELSE "bnb"

\* the private key derived from a phrase along a path
getKeys(c, net, ph, index) == <<ph, getFullDerivationPath(c, net, index)>>

\* the address of a key, encoded for a network
addressOf(c, net, key) == <<getPrefix(c, net), key>>

\* a fresh (uncached) derivation
deriveAddress(c, net, ph, index) == addressOf(c, net, getKeys(c, net, ph, index))

NoCache == [def |-> FALSE, m |-> [i \in Indices |-> NoAddr]]
EmptyCache == [def |-> TRUE, m |-> [i \in Indices |-> NoAddr]]

Ok(op, a, i, p) == [op |-> op, ok |-> TRUE, addr |-> a, err |-> "", idx |-> i, arg |-> p]
Err(op, e, i, p) == [op |-> op, ok |-> FALSE, addr |-> NoAddr, err |-> e, idx |-> i, arg |-> p]
NoResult == [op |-> "none", ok |-> TRUE, addr |-> NoAddr, err |-> "", idx |-> 0, arg |-> ""]

\* What the per-client cache returns on a hit (the stored entry)
cacheHit(cache, ph, index) == cache[ph].m[index]

\* Client.getAddress(index) on a client with the given fields:
\* the returned address or error, and the cache afterwards.
getAddress(c, net, ph, cache, index) ==
    IF c = "btc" /\ index < 0
    THEN [ok |-> FALSE, addr |-> NoAddr, err |-> "index must be greater than zero", cache |-> cache]
    ELSE IF c \in {"btc", "bch"} /\ ph = ""
    THEN [ok |-> FALSE, addr |-> NoAddr, err |-> "Phrase must be provided", cache |-> cache]
    ELSE IF c = "cosmos" /\ ph = ""
    THEN [ok |-> FALSE, addr |-> NoAddr, err |-> "Phrase not set", cache |-> cache]
    ELSE IF ~cache[ph].def
    THEN [ok |-> FALSE, addr |-> NoAddr, err |-> "TypeError", cache |-> cache]
    ELSE IF cache[ph].m[index] # NoAddr
    THEN [ok |-> TRUE, addr |-> cacheHit(cache, ph, index), err |-> "", cache |-> cache]
    ELSE LET a == deriveAddress(c, net, ph, index)
         IN [ok |-> TRUE, addr |-> a, err |-> "",
             cache |-> [cache EXCEPT ![ph].m[index] = a]]

\* Does setPhrase validate its argument?  Cosmos and THORChain skip the
\* validation when the argument equals the stored phrase.
setPhraseValidates(c, ph, p) ==
    IF c \in {"cosmos", "thor"} THEN ph # p ELSE TRUE

-----------------------------------------------------------------------------
(* Wallet operations                                                       *)

NoTx == [walletIndex |-> 0, memo |-> "", feeRate |-> 0, amount |-> 0,
         senderIdx |-> 0, keyIdx |-> 0, sender |-> NoAddr, key |-> <<>>,
         spendPendingUTXO |-> FALSE, inputs |-> <<>>, fee |-> 0, change |-> 0,
         changeTo |-> NoAddr, signed |-> 0, broadcasts |-> 0, err |-> ""]

Idle == pc = "idle" \/ pc = "done" \/ pc = "rejected"

ResetTx == /\ pc' = "idle"
           /\ tx' = NoTx
           /\ log' = <<>>

SetPhrase(p, walletIndex) ==
    /\ Idle
    /\ IF setPhraseValidates(chain, phrase, p) /\ ~validatePhrase(p)
       THEN /\ result' = Err("setPhrase", "Invalid phrase", walletIndex, p)
            /\ UNCHANGED <<phrase, addrCache>>
       ELSE LET cache1 == IF setPhraseValidates(chain, phrase, p)
                          THEN [addrCache EXCEPT ![p] = EmptyCache]
                          ELSE addrCache
                r == getAddress(chain, network, p, cache1, walletIndex)
            IN /\ phrase' = p
               /\ addrCache' = r.cache
               /\ result' = [op |-> "setPhrase", ok |-> r.ok, addr |-> r.addr,
                             err |-> r.err, idx |-> walletIndex, arg |-> p]
    /\ ResetTx
    /\ UNCHANGED <<chain, network, utxos, feeCalls, pg, callVars>>

\* (mutant) purgeClient keeps the phrase
PurgeClient_mut ==
    /\ Idle
    /\ result' = Ok("purgeClient", NoAddr, 0, "")
    /\ ResetTx
    /\ UNCHANGED <<chain, network, phrase, addrCache, utxos, feeCalls, pg, callVars>>

PurgeClient ==
    /\ Idle
    /\ phrase' = ""
    /\ result' = Ok("purgeClient", NoAddr, 0, "")
    /\ ResetTx
    /\ UNCHANGED <<chain, network, addrCache, utxos, feeCalls, pg, callVars>>

SetNetwork(net) ==
    /\ Idle
    /\ IF net = ""
       THEN /\ result' = Err("setNetwork", "Network must be provided", 0, net)
            /\ UNCHANGED network
       ELSE /\ network' = net
            /\ result' = Ok("setNetwork", NoAddr, 0, net)
    /\ ResetTx
    /\ UNCHANGED <<chain, phrase, addrCache, utxos, feeCalls, pg, callVars>>

GetAddress(index) ==
    /\ Idle
    /\ LET r == getAddress(chain, network, phrase, addrCache, index)
       IN /\ addrCache' = r.cache
          /\ result' = [op |-> "getAddress", ok |-> r.ok, addr |-> r.addr,
                        err |-> r.err, idx |-> index, arg |-> phrase]
    /\ ResetTx
    /\ UNCHANGED <<chain, network, phrase, utxos, feeCalls, pg, callVars>>

-----------------------------------------------------------------------------
(* UTXO transaction building and fee calculation (Utils.buildTx,           *)
(* Utils.calcFee)                                                          *)

TxEmptySize == 10
TxInputSize == 148
TxOutputSize == 34

Memos == {"", "memo"}
Amounts == {500, 3000}
UtxoValues == {400, 2000}
FeeRates == 1..MaxFeeRate

Utxo == [value : UtxoValues, confirmed : BOOLEAN]

RECURSIVE SeqsUpTo(_, _)
SeqsUpTo(S, n) ==
    IF n = 0 THEN {<<>>}
    ELSE LET shorter == SeqsUpTo(S, n - 1)
         IN shorter \cup {Append(s, x) : s \in {t \in shorter : Len(t) = n - 1}, x \in S}

UtxoLists == SeqsUpTo(Utxo, MaxUtxo)

RECURSIVE sumValues(_)
sumValues(s) == IF s = <<>> THEN 0 ELSE s[1].value + sumValues(Tail(s))

IsConfirmed(u) == u.confirmed

\* a recipient output, a change output, and one more output for a memo
numOutputs(memo) == 2 + (IF memo # "" THEN 1 ELSE 0)

sizeEstimate(nIn, nOut) == TxEmptySize + nIn * TxInputSize + nOut * TxOutputSize

getFee(nIn, nOut, feeRate) == sizeEstimate(nIn, nOut) * feeRate

\* the fee buildTx charges for a transaction with nIn inputs
txFee(nIn, feeRate, memo) == getFee(nIn, numOutputs(memo), feeRate)

\* (mutant) the memo is not passed on
calcFee_mut(feeRate, memo) == txFee(0, feeRate, "")

\* Client.calcFee(feeRate, memo): the fee before any input is selected
calcFee(feeRate, memo) == txFee(0, feeRate, memo)

\* the UTXOs buildTx may select from
scanUTXOs(list, confirmedOnly) ==
    IF confirmedOnly THEN SelectSeq(list, IsConfirmed) ELSE list

\* does the prefix of k UTXOs cover the target amount and the fee?
covers(list, k, amount, feeRate, memo) ==
    sumValues(SubSeq(list, 1, k)) >= amount + txFee(k, feeRate, memo)

\* greedy selection: the shortest prefix that covers amount + fee; 0 if none
accumulative(list, amount, feeRate, memo) ==
    LET ks == {k \in 1..Len(list) : covers(list, k, amount, feeRate, memo)}
    IN IF ks = {} THEN 0 ELSE CHOOSE k \in ks : \A j \in ks : k <= j

\* buildTx: the selected inputs, the fee and the change, or a failure
buildTx(list, amount, feeRate, memo, confirmedOnly) ==
    LET eligible == scanUTXOs(list, confirmedOnly)
        k == accumulative(eligible, amount, feeRate, memo)
        ins == SubSeq(eligible, 1, k)
        fee == txFee(k, feeRate, memo)
    IN IF k = 0
       THEN [ok |-> FALSE, inputs |-> <<>>, fee |-> 0, change |-> 0]
       ELSE [ok |-> TRUE, inputs |-> ins, fee |-> fee,
             change |-> sumValues(ins) - amount - fee]

-----------------------------------------------------------------------------
(* transfer / deposit                                                      *)

\* (mutant) pending UTXOs are spent whether or not a memo is added
spendPendingUTXO_mut(c, memo) == TRUE

\* Bitcoin: do not spend pending UTXOs when adding a memo
spendPendingUTXO(c, memo) ==
    IF c = "btc" THEN (IF memo # "" THEN FALSE ELSE TRUE) ELSE TRUE

\* the HD index the sender address of a transfer is derived from
senderIndex(c, walletIndex) ==
    IF c \in {"bch", "bnb"} THEN 0 ELSE walletIndex

\* the HD index the signing key of a transfer is derived from
keyIndex(c, walletIndex) == walletIndex

\* (mutant) the rejection of buildTx is swallowed
afterBuild_mut(ok) == "built"

\* transfer awaits buildTx inside try/catch: a failed build rejects the call
afterBuild(ok) == IF ok THEN "built" ELSE "rejected"

\* params.feeRate || (await this.getFeeRates()).fast
transferFeeRate(feeRateParam, fastRate) ==
    IF feeRateParam # 0 THEN feeRateParam ELSE fastRate

Reject(t, e) ==
    /\ pc' = "rejected"
    /\ tx' = [t EXCEPT !.err = e]

\* transfer up to and including buildTx (UTXO clients); for the account
\* clients, up to the point where the SDK call that signs and sends is made
TransferBuild(walletIndex, memo, feeRateParam, fastRate, amount, envOk) ==
    /\ pc = "idle"
    /\ LET sIdx == senderIndex(chain, walletIndex)
           kIdx == keyIndex(chain, walletIndex)
           feeRate == transferFeeRate(feeRateParam, fastRate)
           spend == spendPendingUTXO(chain, memo)
           a == IF chain = "bnb"
                THEN [ok |-> phrase # "", addr |-> deriveAddress(chain, network, phrase, sIdx),
                      err |-> "Phrase not set", cache |-> addrCache]
                ELSE getAddress(chain, network, phrase, addrCache, sIdx)
           b == IF chain \in UtxoChains
                THEN buildTx(utxos, amount, feeRate, memo, ~spend)
                ELSE [ok |-> TRUE, inputs |-> <<>>, fee |-> 0, change |-> 0]
           t0 == [NoTx EXCEPT !.walletIndex = walletIndex, !.memo = memo,
                              !.feeRate = feeRate, !.amount = amount,
                              !.senderIdx = sIdx, !.keyIdx = kIdx,
                              !.spendPendingUTXO = spend]
       IN IF ~envOk
          THEN Reject(t0, "request failed") /\ log' = <<>> /\ UNCHANGED addrCache
          ELSE IF ~a.ok
          THEN Reject(t0, a.err) /\ log' = <<>> /\ UNCHANGED addrCache
          ELSE /\ pc' = afterBuild(b.ok)
               /\ log' = IF b.ok THEN <<"build">> ELSE <<>>
               /\ tx' = IF b.ok
                        THEN [t0 EXCEPT !.sender = a.addr, !.inputs = b.inputs,
                                        !.fee = b.fee, !.change = b.change,
                                        !.changeTo = a.addr]
                        ELSE [t0 EXCEPT !.sender = a.addr,
                                        !.err = "Insufficient Balance for transaction"]
               /\ addrCache' = a.cache
    /\ result' = NoResult
    /\ UNCHANGED <<chain, network, phrase, utxos, feeCalls, pg, callVars>>

\* key derivation and signing of every input
TransferSign(keyOk) ==
    /\ pc = "built"
    /\ IF keyOk
       THEN /\ pc' = "signed"
            /\ tx' = [tx EXCEPT !.key = getKeys(chain, network, phrase, tx.keyIdx),
                                !.signed = Len(tx.inputs)]
            /\ log' = Append(log, "sign")
       ELSE /\ Reject(tx, "Could not get private key from phrase")
            /\ UNCHANGED log
    /\ UNCHANGED <<walletVars, utxos, feeCalls, pg, callVars>>

TransferFinalize(ok) ==
    /\ pc = "signed"
    /\ IF ok
       THEN /\ pc' = "finalized"
            /\ log' = Append(log, "finalize")
            /\ UNCHANGED tx
       ELSE /\ Reject(tx, "Can not finalize input")
            /\ UNCHANGED log
    /\ UNCHANGED <<walletVars, utxos, feeCalls, pg, callVars>>

TransferExtract ==
    /\ pc = "finalized"
    /\ pc' = "extracted"
    /\ log' = Append(log, "extract")
    /\ UNCHANGED <<tx, walletVars, utxos, feeCalls, pg, callVars>>

\* (mutant) the transaction is broadcast as soon as it is built
TransferBroadcast_mut(accepted) ==
    /\ pc \in {"built", "extracted"}
    /\ log' = Append(log, "broadcast")
    /\ pc' = IF accepted THEN "done" ELSE "rejected"
    /\ tx' = [tx EXCEPT !.broadcasts = @ + 1]
    /\ UNCHANGED <<walletVars, utxos, feeCalls, pg, callVars>>

\* the broadcast request; the node may refuse the transaction
TransferBroadcast(accepted) ==
    /\ pc = "extracted"
    /\ log' = Append(log, "broadcast")
    /\ IF accepted
       THEN /\ pc' = "done"
            /\ tx' = [tx EXCEPT !.broadcasts = @ + 1]
       ELSE /\ pc' = "rejected"
            /\ tx' = [tx EXCEPT !.broadcasts = @ + 1, !.err = "broadcast failed"]
    /\ UNCHANGED <<walletVars, utxos, feeCalls, pg, callVars>>

-----------------------------------------------------------------------------
(* calcFee calls                                                           *)

FeeArgs == [nIn : 0..MaxInputs, feeRate : FeeRates, memo : Memos]

FeeCall(args) ==
    [nIn |-> args.nIn, feeRate |-> args.feeRate, memo |-> args.memo, done |-> TRUE,
     fee |-> IF args.nIn = 0 THEN calcFee(args.feeRate, args.memo)
             ELSE txFee(args.nIn, args.feeRate, args.memo)]

FeeRequest(args) ==
    [nIn |-> args.nIn, feeRate |-> args.feeRate, memo |-> args.memo, done |-> FALSE, fee |-> 0]

\* the two pending calcFee calls are made
CalcFee ==
    /\ ~feeCalls[1].done
    /\ feeCalls' = <<FeeCall(feeCalls[1]), FeeCall(feeCalls[2])>>
    /\ UNCHANGED <<walletVars, txVars, utxos, pg, callVars>>

-----------------------------------------------------------------------------
(* getTransactions                                                         *)

PageClients == {"btc", "eth", "thor", "cosmos", "dot"}

\* an absent (undefined) offset or limit
Undefined == -1

DefaultLimit == 10
MAX_TX_COUNT == 100

Heights == 1..2
Hashes == 1..MaxHist
RPCTxResult == [hash : Hashes, height : Heights]

\* histories as an explorer returns them: distinct transactions,
\* every hash with one height
TxPool == {[hash |-> h, height |-> 1 + (h % 2)] : h \in Hashes}
NoDup(s) == \A i, j \in 1..Len(s) : i # j => s[i] # s[j]
Histories == {s \in SeqsUpTo(TxPool, MaxHist) : NoDup(s)}
SearchResults == SeqsUpTo(TxPool, 2)

\* a full page of per_page = MAX_TX_COUNT search results, hashes from first on
longResult(first, n) ==
    [i \in 1..n |-> [hash |-> first + i - 1, height |-> 1 + ((first + i - 1) % 2)]]
LongResults == {longResult(1, MAX_TX_COUNT), longResult(1 + (MAX_TX_COUNT \div 2), MAX_TX_COUNT)}

Min(a, b) == IF a < b THEN a ELSE b
Max(a, b) == IF a > b THEN a ELSE b

\* Array.filter with a predicate on the (1-based) position, keep[i]
selectAt(s, keep) ==
    LET kept == SelectSeq([i \in 1..Len(s) |-> i], LAMBDA i : keep[i])
    IN [k \in 1..Len(kept) |-> s[kept[k]]]

\* Array.filter((_, index) => lo <= index && index < hi); index is the
\* (0-based) index of the first entry
filterIndex(s, lo, hi, index) ==
    selectAt(s, [i \in 1..Len(s) |-> lo <= index + i - 1 /\ index + i - 1 < hi])

\* the comparator of the THORChain history sort: height descending, then hash ascending
txBefore(a, b) ==
    IF a.height # b.height THEN a.height > b.height ELSE a.hash < b.hash

\* Array.sort with that comparator
sortTxs(s) == SortSeq(s, txBefore)

dedupe_mut(s) == s

\* reduce: keep a transaction unless the one kept last has the same hash;
\* the one kept last has the hash of the entry just before
dedupe(s) == selectAt(s, [i \in 1..Len(s) |-> i = 1 \/ s[i].hash # s[i - 1].hash])

\* filterFn of the caller: keep all, or keep the transactions of one height
FilterFns == {0} \cup Heights
passes(f, t) == f = 0 \/ t.height = f
filterTxs(f, s) == SelectSeq(s, LAMBDA t : passes(f, t))

thorHistory_mut(incoming, outgoing, f) ==
    filterTxs(f, dedupe(sortTxs(incoming \o outgoing)))

\* the merged history of the THORChain client
thorHistory(incoming, outgoing, f) ==
    filterIndex(filterTxs(f, dedupe(sortTxs(incoming \o outgoing))), 0, MAX_TX_COUNT, 0)

\* offset and limit as each client reads them from TxHistoryParams
effOffset(c, o) ==
    IF o = Undefined THEN 0 ELSE o

effLimit(c, l) ==
    IF c = "dot" THEN (IF l = Undefined THEN DefaultLimit ELSE l)
    ELSE IF l = Undefined \/ l = 0 THEN DefaultLimit ELSE l

\* (mutant) the upper end of the window is included
slicePage_mut(c, history, o, l) ==
    filterIndex(history, effOffset(c, o), effOffset(c, o) + effLimit(c, l) + 1, 0)

\* slicing clients (Bitcoin, Ethereum, THORChain): txs of the page
slicePage(c, history, o, l) ==
    filterIndex(history, effOffset(c, o), effOffset(c, o) + effLimit(c, l), 0)

\* Cosmos: TxHistoryParams.offset is sent as the REST query's page (1-based,
\* 1 when absent), limit as its limit (30 when absent)
cosmosPage(history, o, l) ==
    LET page == IF o = Undefined \/ o = 0 THEN 1 ELSE o
        limit == IF l = Undefined \/ l = 0 THEN 30 ELSE l
    IN filterIndex(history, (page - 1) * limit, page * limit, 0)

\* Polkadot: TxHistoryParams.offset is sent as subscan's page (0-based),
\* limit as its row
polkadotPage(history, o, l) ==
    LET page == effOffset("dot", o)
        row == effLimit("dot", l)
    IN filterIndex(history, page * row, (page + 1) * row, 0)

PageRequest(c, incoming, outgoing, f, o, l) ==
    [client |-> c, offset |-> o, limit |-> l, incoming |-> incoming,
     outgoing |-> outgoing, filterFn |-> f, done |-> FALSE,
     history |-> <<>>, total |-> 0, txs |-> <<>>]

\* the page a client returns for a fetched history
getTransactions(req, history) ==
    [req EXCEPT !.done = TRUE,
                !.history = history,
                !.total = Len(history),
                !.txs = CASE req.client = "cosmos" -> cosmosPage(history, req.offset, req.limit)
                          [] req.client = "dot" -> polkadotPage(history, req.offset, req.limit)
                          [] OTHER -> slicePage(req.client, history, req.offset, req.limit)]

OffsetArgs == {Undefined} \cup (0..MaxOffset)
LimitArgs == {Undefined} \cup (0..MaxLimit)

PageRequests ==
    {PageRequest(c, h, <<>>, 0, o, l) :
        c \in PageClients \ {"thor"}, h \in Histories, o \in OffsetArgs, l \in LimitArgs}
    \cup
    {PageRequest("thor", h[1], h[2], f, ol[1], ol[2]) :
        h \in SearchResults \X SearchResults, f \in FilterFns, ol \in OffsetArgs \X LimitArgs}
    \cup
    {PageRequest("thor", h[1], h[2], f, o, Undefined) :
        h \in LongResults \X LongResults, f \in FilterFns, o \in {Undefined, MaxOffset}}

IdlePage == [PageRequest("btc", <<>>, <<>>, 0, Undefined, Undefined) EXCEPT !.done = TRUE]

GetTransactions ==
    /\ ~pg.done
    /\ pg.client # "thor"
    /\ pg' = getTransactions(pg, pg.incoming)
    /\ UNCHANGED <<walletVars, txVars, utxos, feeCalls, callVars>>

GetTransactionsThor ==
    /\ ~pg.done
    /\ pg.client = "thor"
    /\ pg' = getTransactions(pg, thorHistory(pg.incoming, pg.outgoing, pg.filterFn))
    /\ UNCHANGED <<walletVars, txVars, utxos, feeCalls, callVars>>

-----------------------------------------------------------------------------
(* Ethereum transfer: gas price and gas limit of the sent transaction      *)

FeeOptionKeys == {"average", "fast", "fastest"}

\* a gas price or gas limit together with where it comes from
GasVal(kind, key, v) == [kind |-> kind, key |-> key, v |-> v]
NoGas == GasVal("undefined", "", 0)
SIMPLE_GAS_COST == GasVal("SIMPLE_GAS_COST", "", 0)
BASE_TOKEN_GAS_COST == GasVal("BASE_TOKEN_GAS_COST", "", 0)
getDefaultGasPrices == [k \in FeeOptionKeys |-> GasVal("getDefaultGasPrices", k, 0)]

ETHAddress == "0x0000000000000000000000000000000000000000"

\* assetAddress stays undefined ("") for an absent asset and for AssetETH
assetAddressOf(asset) ==
    CASE asset \in {"undefined", "ETH"} -> ""
      [] asset = "ETHAddress" -> ETHAddress
      [] OTHER -> "0xtoken"

defaultGasLimit(asset) ==
    IF assetAddressOf(asset) = ETHAddress THEN SIMPLE_GAS_COST ELSE BASE_TOKEN_GAS_COST

\* estimateGasPrices(): the oracle answers (oracle > 0) or the request fails
estimateGasPrices(oracle, k) ==
    IF oracle = 0 THEN getDefaultGasPrices[k] ELSE GasVal("estimateGasPrices", k, oracle)

\* estimateGasLimit(): the node answers (est > 0) or the estimate fails
estimateGasLimit(est, asset) ==
    IF est = 0 THEN defaultGasLimit(asset) ELSE GasVal("estimateGasLimit", "", est)

ethOverrides_mut(asset, feeOptionKey, gasPrice, gasLimit, oracle, est) ==
    IF feeOptionKey # ""
    THEN [gasLimit |-> IF gasLimit # NoGas THEN gasLimit ELSE estimateGasLimit(est, asset),
          gasPrice |-> estimateGasPrices(oracle, feeOptionKey)]
    ELSE [gasLimit |-> IF gasLimit # NoGas THEN gasLimit ELSE defaultGasLimit(asset),
          gasPrice |-> gasPrice]

\* the overrides handed to the contract call / sendTransaction
ethOverrides(asset, feeOptionKey, gasPrice, gasLimit, oracle, est) ==
    IF feeOptionKey # ""
    THEN [gasLimit |-> estimateGasLimit(est, asset),
          gasPrice |-> estimateGasPrices(oracle, feeOptionKey)]
    ELSE [gasLimit |-> IF gasLimit # NoGas THEN gasLimit ELSE defaultGasLimit(asset),
          gasPrice |-> gasPrice]

EthRequest(asset, walletIndex, feeOptionKey, gasPrice, gasLimit, oracle, est, sendOk) ==
    [asset |-> asset, walletIndex |-> walletIndex, feeOptionKey |-> feeOptionKey,
     gasPrice |-> gasPrice, gasLimit |-> gasLimit, oracle |-> oracle, est |-> est,
     sendOk |-> sendOk, done |-> FALSE, path |-> "", signer |-> 0,
     overrides |-> [gasLimit |-> NoGas, gasPrice |-> NoGas], hash |-> FALSE]

EthRequests ==
    {EthRequest(a, w, k, gp, gl, o, e, ok) :
        a \in {"undefined", "ETH", "token", "ETHAddress"}, w \in Indices, k \in FeeOptionKeys \cup {""},
        gp \in {GasVal("caller", "", v) : v \in 1..MaxGas} \cup {NoGas},
        gl \in {GasVal("caller", "", v) : v \in 1..MaxGas} \cup {NoGas},
        o \in 0..MaxGas, e \in 0..MaxGas, ok \in BOOLEAN}

IdleEth == [EthRequest("undefined", 0, "", NoGas, NoGas, 0, 0, FALSE) EXCEPT !.done = TRUE]

\* Client.transfer of the Ethereum client
EthTransfer ==
    /\ ~eth.done
    /\ LET erc20 == assetAddressOf(eth.asset) # "" /\ assetAddressOf(eth.asset) # ETHAddress
       IN eth' = [eth EXCEPT
                    !.done = TRUE,
                    !.path = IF erc20 THEN "erc20" ELSE "eth",
                    !.signer = IF erc20 THEN eth.walletIndex ELSE 0,
                    !.overrides = ethOverrides(eth.asset, eth.feeOptionKey, eth.gasPrice,
                                               eth.gasLimit, eth.oracle, eth.est),
                    !.hash = eth.sendOk]
    /\ UNCHANGED <<clientVars, bal, rl, fees, ga>>

-----------------------------------------------------------------------------
(* getBalance of the Cosmos, THORChain and Binance clients                 *)

\* AssetAtom / AssetMuon, AssetRune, AssetBNB
mainAsset(c, net) ==
    CASE c = "cosmos" -> IF net = "mainnet" THEN "GAIA.ATOM" ELSE "GAIA.MUON"
      [] c = "thor" -> "THOR.RUNE"
      [] OTHER -> "BNB.BNB"

\* denominations (Binance: symbols) the node reports; "" is a missing one
Denoms(c) ==
    CASE c = "cosmos" -> {"uatom", "umuon", ""}
      [] c = "thor" -> {"rune", "tkn", ""}
      [] OTHER -> {"BNB", "TKN", ""}

\* getAsset(denom) / assetFromString(`BNB.${symbol}`); "" stands for null
getAsset(c, denom) ==
    CASE c = "cosmos" -> (CASE denom = "uatom" -> "GAIA.ATOM"
                            [] denom = "umuon" -> "GAIA.MUON"
                            [] OTHER -> "")
      [] c = "thor" -> (CASE denom = "rune" -> "THOR.RUNE"
                          [] denom = "tkn" -> "THOR.TKN"
                          [] OTHER -> "")
      [] OTHER -> (CASE denom = "BNB" -> "BNB.BNB"
                     [] denom = "TKN" -> "BNB.TKN"
                     [] OTHER -> "")

\* balances.map(...): a balance whose asset cannot be read counts as main asset
assetBalancesOf(c, net, balances) ==
    [i \in 1..Len(balances) |->
        [asset |-> IF balances[i].denom # "" /\ getAsset(c, balances[i].denom) # ""
                   THEN getAsset(c, balances[i].denom)
                   ELSE mainAsset(c, net),
         amount |-> balances[i].amount]]

\* "make sure we always have the main asset as balance in the array"
withMainAsset(c, net, assetBalances) ==
    IF Len(assetBalances) = 0
    THEN <<[asset |-> mainAsset(c, net), amount |-> 0]>>
    ELSE assetBalances

NoAssets == [given |-> FALSE, list |-> {}]

getBalance(c, net, balances, assets) ==
    SelectSeq(withMainAsset(c, net, assetBalancesOf(c, net, balances)),
              LAMBDA b : ~assets.given \/ b.asset \in assets.list)

BalanceRequest(c, net, balances, assets, nodeOk) ==
    [client |-> c, network |-> net, balances |-> balances, assets |-> assets,
     nodeOk |-> nodeOk, done |-> FALSE, ok |-> FALSE, result |-> <<>>]

BalanceRequests ==
    UNION {{BalanceRequest(c, net, b, a, ok) :
               b \in SeqsUpTo([denom : Denoms(c), amount : 0..MaxAmount], MaxBal),
               a \in {NoAssets} \cup {[given |-> TRUE, list |-> l] : l \in {{}, {mainAsset(c, net)}}},
               ok \in BOOLEAN} :
           c \in {"cosmos", "thor", "bnb"}, net \in Networks}

IdleBalance == [BalanceRequest("cosmos", "testnet", <<>>, NoAssets, FALSE) EXCEPT !.done = TRUE]

\* Client.getBalance
GetBalance ==
    /\ ~bal.done
    /\ bal' = [bal EXCEPT
                 !.done = TRUE,
                 !.ok = bal.nodeOk,
                 !.result = IF bal.nodeOk
                            THEN getBalance(bal.client, bal.network, bal.balances, bal.assets)
                            ELSE <<>>]
    /\ UNCHANGED <<clientVars, eth, rl, fees, ga>>

-----------------------------------------------------------------------------
(* Binance: getTxWithRateLimitHandling                                     *)

Statuses == {200, 299, 300, 429, 500}
TooManyRequests == 429

\* axios resolves for these statuses and throws for every other one
validateStatus(status) == (status >= 200 /\ status < 300) \/ status = TooManyRequests

\* requests: URLs requested so far; statuses: statuses answered so far;
\* value: which response's body was returned (0: none)
NoRate == [pc |-> "idle", op |-> "", url |-> "", requests |-> <<>>, statuses |-> <<>>,
           value |-> 0]

\* searchTransactions builds the URL and calls getTxWithRateLimitHandling(url)
SearchTransactions(op, url) ==
    /\ rl.pc \in {"idle", "resolved", "rejected"}
    /\ rl' = [NoRate EXCEPT !.pc = "requesting", !.op = op, !.url = url,
                            !.requests = <<url>>]
    /\ UNCHANGED <<clientVars, eth, bal, fees, ga>>

afterResponse_mut(status) ==
    IF ~validateStatus(status) THEN "rejected" ELSE "resolved"

\* where the handler goes once axios.get has answered
afterResponse(status) ==
    IF ~validateStatus(status) THEN "rejected"
    ELSE IF status = TooManyRequests THEN "waiting"
    ELSE "resolved"

\* the server answers the request in flight
AxiosResponse(status) ==
    /\ rl.pc = "requesting"
    /\ status = TooManyRequests => Len(rl.statuses) < MaxRetry
    /\ rl' = [rl EXCEPT !.pc = afterResponse(status),
                        !.statuses = Append(rl.statuses, status),
                        !.value = IF afterResponse(status) = "resolved"
                                  THEN Len(rl.statuses) + 1 ELSE 0]
    /\ UNCHANGED <<clientVars, eth, bal, fees, ga>>

\* the request fails without a response
AxiosError ==
    /\ rl.pc = "requesting"
    /\ rl' = [rl EXCEPT !.pc = "rejected"]
    /\ UNCHANGED <<clientVars, eth, bal, fees, ga>>

\* a 429 answer beyond the recorded history: the handler waits again
RateLimitedAgain ==
    /\ rl.pc = "requesting"
    /\ Len(rl.statuses) = MaxRetry
    /\ rl' = [rl EXCEPT !.pc = afterResponse(TooManyRequests)]
    /\ UNCHANGED <<clientVars, eth, bal, fees, ga>>

RetryAfterWait_mut ==
    /\ rl.pc = "waiting"
    /\ rl' = [rl EXCEPT !.pc = "rejected"]
    /\ UNCHANGED <<clientVars, eth, bal, fees, ga>>

\* the 2 second timer fires and the handler calls itself with the same URL
RetryAfterWait ==
    /\ rl.pc = "waiting"
    /\ rl' = [rl EXCEPT !.pc = "requesting",
                        !.requests = IF Len(rl.requests) <= MaxRetry
                                     THEN Append(rl.requests, rl.url)
                                     ELSE rl.requests]
    /\ UNCHANGED <<clientVars, eth, bal, fees, ga>>

-----------------------------------------------------------------------------
(* getDefaultFees of the Polkadot and THORChain packages                   *)

\* amounts are decimal digit sequences (most significant digit first), as
\* they exceed the machine integers of the model checker
Zeros(k) == [i \in 1..k |-> 0]
baseAmount(digits, decimal) == [amount |-> digits, decimal |-> decimal]

\* thorchain/util: DECIMAL and the digits of DEFAULT_GAS_VALUE
DECIMAL == 8
DEFAULT_GAS_VALUE == <<2>> \o Zeros(6)

\* polkadot/util: decimals of DOT (mainnet) and WND (testnet)
getDecimal(net) == IF net = "mainnet" THEN 10 ELSE 12

\* assetToBase(assetAmount(0.015, decimal)): 15 thousandths in base units
assetToBase15(decimal) == baseAmount(<<1, 5>> \o Zeros(decimal - 3), decimal)

polkadotDefaultFees_mut(net) ==
    LET fee == assetToBase15(getDecimal(net))
    IN [type |-> "byte", average |-> fee, fast |-> fee,
        fastest |-> baseAmount(fee.amount \o <<0>>, fee.decimal)]

\* polkadot/util getDefaultFees(network)
polkadotDefaultFees(net) ==
    LET fee == assetToBase15(getDecimal(net))
    IN [type |-> "byte", average |-> fee, fast |-> fee, fastest |-> fee]

\* getDefaultFees of the package: polkadot/util, thorchain/util
getDefaultFees(c, net) ==
    IF c = "dot" THEN polkadotDefaultFees(net)
    ELSE LET fee == baseAmount(DEFAULT_GAS_VALUE, DECIMAL)
         IN [type |-> "base", average |-> fee, fast |-> fee, fastest |-> fee]

NoFees == [client |-> "", network |-> "", fees |-> getDefaultFees("thor", "testnet")]

\* a call of getDefaultFees(network)
GetDefaultFees(c, net) ==
    /\ fees' = [client |-> c, network |-> net, fees |-> getDefaultFees(c, net)]
    /\ UNCHANGED <<clientVars, eth, bal, rl, ga>>

-----------------------------------------------------------------------------
(* Module-level getAddress with its process-wide cache                     *)

Triples == [network : Networks, phrase : {"p1", "p1-0"}, index : Indices]

\* rootDerivationPaths[network] / HDPATH of each module
moduleRootPath(m, net) ==
    CASE m = "cosmos" -> IF net = "mainnet" THEN "44'/118'/0'/0/" ELSE "44'/118'/1'/0/"
      [] m = "thor" -> "44'/931'/0'/0/"
      [] m = "eth" -> "m/44'/60'/0'/0/"
      [] m = "bch" -> IF net = "mainnet" THEN "m/44'/145'/0'/0/" ELSE "m/44'/1'/0'/0/"
      [] OTHER -> "44'/714'/0'/0/"

\* what else of the network enters the address: SDK client, prefix, bchNetwork
moduleNetworkPart(m, net) ==
    CASE m = "cosmos" -> IF net = "mainnet" THEN "MAINNET_SDK" ELSE "TESTNET_SDK"
      [] m = "thor" -> IF net = "testnet" THEN "tthor" ELSE "thor"
      [] m = "eth" -> ""
      [] m = "bch" -> net
      [] OTHER -> IF net = "testnet" THEN "tbnb" ELSE "bnb"

\* the uncached derivation
moduleDerive(m, t) ==
    <<moduleNetworkPart(m, t.network), t.phrase,
      moduleRootPath(m, t.network) \o ToString(t.index)>>

getCacheKey_mut(m, t) ==
    IF m = "eth"
    THEN <<t.phrase, t.index>>
    ELSE <<t.network \o "-" \o t.phrase>>

\* [network, phrase, index].join('-'); Ethereum: addrCache[phrase][index]
getCacheKey(m, t) ==
    IF m = "eth"
    THEN <<t.phrase, t.index>>
    ELSE <<t.network \o "-" \o t.phrase \o "-" \o ToString(t.index)>>

\* cache: entries [key, addr, by] (by: the triple whose call filled the entry);
\* returned: every <<triple, address>> a call has returned so far
NoModuleCalls(m) ==
    [module |-> m, cache |-> {}, returned |-> {},
     last |-> [called |-> FALSE, hit |-> FALSE, addr |-> <<>>,
               triple |-> [network |-> "", phrase |-> "", index |-> 0],
               by |-> [network |-> "", phrase |-> "", index |-> 0]]]

\* getAddress({network, phrase, index}) of module ga.module
ModuleGetAddress(t) ==
    /\ \/ Cardinality({r[1] : r \in ga.returned}) < MaxCalls
       \/ t \in {r[1] : r \in ga.returned}
    /\ LET key == getCacheKey(ga.module, t)
           found == {e \in ga.cache : e.key = key}
       IN IF found # {}
          THEN LET e == CHOOSE e \in found : TRUE
               IN ga' = [ga EXCEPT
                           !.returned = @ \cup {<<t, e.addr>>},
                           !.last = [called |-> TRUE, triple |-> t, hit |-> TRUE,
                                     by |-> e.by, addr |-> e.addr]]
          ELSE LET addr == moduleDerive(ga.module, t)
               IN ga' = [ga EXCEPT
                           !.cache = @ \cup {[key |-> key, addr |-> addr, by |-> t]},
                           !.returned = @ \cup {<<t, addr>>},
                           !.last = [called |-> TRUE, triple |-> t, hit |-> FALSE,
                                     by |-> t, addr |-> addr]]
    /\ UNCHANGED <<clientVars, eth, bal, rl, fees>>

-----------------------------------------------------------------------------
(* Specifications                                                          *)

DefaultUtxos == <<[value |-> 2000, confirmed |-> TRUE], [value |-> 2000, confirmed |-> FALSE]>>

InitWallet ==
    /\ chain \in Chains
    /\ network \in Networks
    /\ phrase = ""
    /\ addrCache = [p \in PhraseArgs |-> NoCache]
    /\ result = NoResult

InitTx ==
    /\ pc = "idle"
    /\ tx = NoTx
    /\ log = <<>>

\* no call of the stateless operations is pending
InitCalls ==
    /\ eth = IdleEth
    /\ bal = IdleBalance
    /\ rl = NoRate
    /\ fees = NoFees
    /\ ga = NoModuleCalls("cosmos")

InitPure ==
    /\ feeCalls = <<FeeCall([nIn |-> 0, feeRate |-> 1, memo |-> ""]),
                    FeeCall([nIn |-> 0, feeRate |-> 1, memo |-> ""])>>
    /\ pg = IdlePage

\* a client after construction
Init ==
    /\ InitWallet
    /\ InitTx
    /\ InitCalls
    /\ InitPure
    /\ utxos = DefaultUtxos

WalletOp ==
    \/ \E p \in PhraseArgs, i \in Indices : SetPhrase(p, i)
    \/ PurgeClient
    \/ \E net \in Networks \cup {""} : SetNetwork(net)
    \/ \E i \in Indices : GetAddress(i)

\* feeRate given by the caller, or absent (0) and taken from getFeeRates().fast
FeeRateArgs == {<<0, f>> : f \in FeeRates} \cup {<<f, f>> : f \in FeeRates}

SmallAmounts == {a \in Amounts : a < 1000}

\* the promise of transfer settles (hash returned or error thrown) and the
\* caller continues
TransferReturn ==
    /\ pc \in {"done", "rejected"}
    /\ ResetTx
    /\ UNCHANGED <<walletVars, utxos, feeCalls, pg, callVars>>

TransferSteps ==
    \/ TransferReturn
    \/ \E ok \in BOOLEAN : TransferSign(ok)
    \/ \E ok \in BOOLEAN : TransferFinalize(ok)
    \/ TransferExtract
    \/ \E ok \in BOOLEAN : TransferBroadcast(ok)

Next ==
    \/ WalletOp
    \/ \E w \in Indices, m \in Memos, a \in SmallAmounts, envOk \in BOOLEAN :
          TransferBuild(w, m, 0, 1, a, envOk)
    \/ TransferSteps

Spec == Init /\ [][Next]_vars

\* transfers of a client constructed with the default network, after
\* setPhrase, over every UTXO list of the sender
InitTransfer ==
    /\ chain \in Chains
    /\ network = "testnet"
    /\ phrase = "p1"
    /\ addrCache = [p \in PhraseArgs |->
                      IF p = "p1"
                      THEN getAddress(chain, network, "p1", [q \in PhraseArgs |-> EmptyCache], 0).cache[p]
                      ELSE NoCache]
    /\ result = Ok("setPhrase", deriveAddress(chain, network, "p1", 0), 0, "p1")
    /\ InitTx
    /\ InitCalls
    /\ InitPure
    /\ utxos \in (IF chain \in UtxoChains THEN UtxoLists ELSE {<<>>})

NextTransfer ==
    \/ \E w \in Indices, m \in Memos, fr \in FeeRateArgs, a \in Amounts, envOk \in BOOLEAN :
          TransferBuild(w, m, fr[1], fr[2], a, envOk)
    \/ TransferSteps

SpecTransfer == InitTransfer /\ [][NextTransfer]_vars

\* calcFee over bounded arguments
InitFee ==
    /\ InitWallet
    /\ chain = "btc"
    /\ network = "testnet"
    /\ InitTx
    /\ InitCalls
    /\ utxos = DefaultUtxos
    /\ pg = IdlePage
    /\ feeCalls \in {<<FeeRequest(x), FeeRequest(y)>> : x \in FeeArgs, y \in FeeArgs}

SpecFee == InitFee /\ [][CalcFee]_vars

\* getTransactions over bounded histories, offsets and limits
InitPage ==
    /\ InitWallet
    /\ chain = "btc"
    /\ network = "testnet"
    /\ InitTx
    /\ InitCalls
    /\ utxos = DefaultUtxos
    /\ feeCalls = <<FeeCall([nIn |-> 0, feeRate |-> 1, memo |-> ""]),
                    FeeCall([nIn |-> 0, feeRate |-> 1, memo |-> ""])>>
    /\ pg \in PageRequests

NextPage == GetTransactions \/ GetTransactionsThor

SpecPage == InitPage /\ [][NextPage]_vars

\* the client constructed with the default network, no wallet call made
InitClient ==
    /\ InitWallet
    /\ chain = "btc"
    /\ network = "testnet"
    /\ InitTx
    /\ InitPure
    /\ utxos = DefaultUtxos

\* Ethereum transfer over bounded arguments and node answers
InitEth ==
    /\ InitClient
    /\ eth \in EthRequests
    /\ bal = IdleBalance
    /\ rl = NoRate
    /\ fees = NoFees
    /\ ga = NoModuleCalls("cosmos")

SpecEth == InitEth /\ [][EthTransfer]_vars

\* getBalance over bounded account states and filters
InitBalance ==
    /\ InitClient
    /\ eth = IdleEth
    /\ bal \in BalanceRequests
    /\ rl = NoRate
    /\ fees = NoFees
    /\ ga = NoModuleCalls("cosmos")

SpecBalance == InitBalance /\ [][GetBalance]_vars

\* Binance transaction searches against a server that may answer 429
NextRate ==
    \/ \E op \in {"getTransactions", "getTransactionData"}, url \in {"url1", "url2", "url3"} :
          SearchTransactions(op, url)
    \/ \E status \in Statuses : AxiosResponse(status)
    \/ AxiosError
    \/ RetryAfterWait

InitRate ==
    /\ InitClient
    /\ InitCalls

SpecRate == InitRate /\ [][NextRate]_vars

\* the same, with no limit on the number of 429 answers; the timer fires, and
\* the server eventually answers a request with a status other than 429
SpecRateLive ==
    /\ InitRate
    /\ [][NextRate \/ RateLimitedAgain]_vars
    /\ WF_vars(RetryAfterWait)
    /\ SF_vars(\E status \in Statuses \ {TooManyRequests} : AxiosResponse(status))

\* the fee functions: calcFee and the packages' getDefaultFees
SpecDefaultFees ==
    InitFee /\ [][CalcFee \/ \E c \in {"dot", "thor"}, net \in Networks : GetDefaultFees(c, net)]_vars

\* calls of one get-address module, starting with an empty cache
InitModule ==
    /\ InitClient
    /\ eth = IdleEth /\ bal = IdleBalance /\ rl = NoRate /\ fees = NoFees
    /\ ga \in {NoModuleCalls(m) : m \in {"cosmos", "thor", "eth", "bch", "bnb"}}

SpecModule == InitModule /\ [][\E t \in Triples : ModuleGetAddress(t)]_vars

-----------------------------------------------------------------------------
(* Properties                                                              *)

InLog(e) == \E i \in 1..Len(log) : log[i] = e
Pipeline == <<"build", "sign", "finalize", "extract", "broadcast">>
IsPrefix(s, t) == Len(s) <= Len(t) /\ s = SubSeq(t, 1, Len(s))

\* C1: getAddress(index) with a phrase set returns the address a fresh
\* derivation from the current phrase, the current network and index gives,
\* and every cache entry of the current phrase is the address for the
\* network that is current (Spec).
C1_CacheServesCurrentNetwork ==
    /\ (result.op = "getAddress" /\ result.ok)
          => result.addr = deriveAddress(chain, network, phrase, result.idx)
    /\ (phrase # "" /\ addrCache[phrase].def)
          => \A i \in Indices :
                addrCache[phrase].m[i] # NoAddr
                   => addrCache[phrase].m[i] = deriveAddress(chain, network, phrase, i)

\* C2: in every transfer the sender address and the signing key are derived
\* from the same HD index, params.walletIndex: the sender named in the
\* transaction is the address of the key that signs it (SpecTransfer).
C2_SenderAndKeySameIndex ==
    InLog("sign") =>
        /\ tx.senderIdx = tx.walletIndex
        /\ tx.keyIdx = tx.walletIndex
        /\ tx.sender = addressOf(chain, network, tx.key)

\* C3: a Bitcoin transfer with a memo is built with spendPendingUTXO = false
\* and none of its inputs is an unconfirmed UTXO (SpecTransfer).
C3_NoPendingWithMemo ==
    (chain = "btc" /\ pc # "idle" /\ tx.memo # "") =>
        /\ tx.spendPendingUTXO = FALSE
        /\ \A i \in 1..Len(tx.inputs) : tx.inputs[i].confirmed

C3_Witness ==
    /\ chain = "btc"
    /\ pc = "done"
    /\ tx.memo # ""
    /\ tx.broadcasts = 1
    /\ Len(tx.inputs) >= 1
    /\ Len(utxos) = 2
    /\ ~utxos[1].confirmed

\* C4: a built UTXO transaction spends the shortest prefix of the eligible
\* UTXO list whose sum covers amount + fee; sum(inputs) = amount + fee +
\* change with change >= 0 and the change paid to the sender; when the
\* eligible UTXOs do not cover amount + fee the transfer rejects and nothing
\* is broadcast (SpecTransfer).
C4_CoinSelection ==
    chain \in UtxoChains =>
        LET eligible == scanUTXOs(utxos, ~tx.spendPendingUTXO)
            k == Len(tx.inputs)
        IN /\ log # <<>> =>
                /\ k >= 1
                /\ tx.inputs = SubSeq(eligible, 1, k)
                /\ \A j \in 1..(k - 1) :
                      sumValues(SubSeq(eligible, 1, j))
                         < tx.amount + sizeEstimate(j, numOutputs(tx.memo)) * tx.feeRate
                /\ tx.fee = sizeEstimate(k, numOutputs(tx.memo)) * tx.feeRate
                /\ sumValues(tx.inputs) = tx.amount + tx.fee + tx.change
                /\ tx.change >= 0
                /\ tx.sender # NoAddr
                /\ tx.changeTo = tx.sender
           /\ (pc # "idle" /\ tx.err # "request failed"
                 /\ sumValues(eligible)
                      < tx.amount + sizeEstimate(1, numOutputs(tx.memo)) * tx.feeRate)
                => (pc = "rejected" /\ log = <<>> /\ tx.broadcasts = 0)
           /\ tx.err = "Insufficient Balance for transaction"
                => (pc = "rejected" /\ tx.broadcasts = 0 /\ ~InLog("broadcast"))

C4_Witness ==
    /\ chain \in UtxoChains
    /\ pc = "done"
    /\ Len(tx.inputs) = 2
    /\ tx.change > 0
    /\ tx.broadcasts = 1

\* C5: the fee is sizeEstimate(inputs, outputs) x feeRate, the size depending
\* only on the number of inputs and of outputs (a memo adds one output); the
\* fee is non-decreasing in feeRate, in the number of inputs and when a memo
\* is added (SpecFee).
C5_FeeIsSizeTimesRate ==
    feeCalls[1].done =>
        LET a == feeCalls[1]
            b == feeCalls[2]
            outs(c) == 2 + (IF c.memo # "" THEN 1 ELSE 0)
            size(c) == TxEmptySize + c.nIn * TxInputSize + outs(c) * TxOutputSize
        IN /\ a.fee = size(a) * a.feeRate
           /\ b.fee = size(b) * b.feeRate
           /\ (a.nIn = b.nIn /\ outs(a) = outs(b)) => a.fee * b.feeRate = b.fee * a.feeRate
           /\ (a.feeRate <= b.feeRate /\ a.nIn <= b.nIn /\ outs(a) <= outs(b)) => a.fee <= b.fee

C5_Witness ==
    /\ feeCalls[1].done
    /\ feeCalls[1].nIn = 0
    /\ feeCalls[1].memo # ""
    /\ feeCalls[2].memo = ""
    /\ feeCalls[2].nIn = 0
    /\ feeCalls[1].feeRate = feeCalls[2].feeRate
    /\ feeCalls[1].fee > feeCalls[2].fee

\* C6: the steps of a UTXO transfer occur in the order build, sign, finalize,
\* extract, broadcast; a broadcast request is issued at most once and only
\* after every input has been signed; a transfer that fails while building,
\* deriving the key or signing rejects without a broadcast (SpecTransfer).
C6_PipelineOrder ==
    chain \in UtxoChains =>
        /\ IsPrefix(log, Pipeline)
        /\ tx.broadcasts <= 1
        /\ (tx.broadcasts = 1) <=> InLog("broadcast")
        /\ InLog("broadcast") => (InLog("sign") /\ Len(tx.inputs) >= 1
                                   /\ tx.signed = Len(tx.inputs))
        /\ pc = "done" => log = Pipeline
        /\ (pc = "rejected" /\ tx.err # "broadcast failed") => tx.broadcasts = 0

C6_Witness ==
    /\ chain \in UtxoChains
    /\ pc = "done"
    /\ log = Pipeline
    /\ tx.signed = 2
    /\ tx.broadcasts = 1

\* C7: getTransactions of the Bitcoin, Ethereum and THORChain clients, with
\* offset o (default 0) and limit l (default 10, 0 treated as 10), returns
\* exactly the history entries at positions o <= i < o + l in history order,
\* so |txs| = min(l, max(0, total - o)), and total is the length of the
\* whole history (SpecPage).
C7_SlicePagination ==
    (pg.done /\ pg.client \in {"btc", "eth", "thor"}) =>
        LET o == IF pg.offset = Undefined THEN 0 ELSE pg.offset
            l == IF pg.limit = Undefined \/ pg.limit = 0 THEN 10 ELSE pg.limit
            n == Len(pg.history)
        IN /\ pg.total = n
           /\ Len(pg.txs) = Min(l, Max(0, n - o))
           /\ \A i \in 1..Len(pg.txs) : pg.txs[i] = pg.history[o + i]

C7_Witness ==
    /\ pg.done
    /\ pg.client \in {"btc", "eth", "thor"}
    /\ pg.offset = 1
    /\ pg.limit = 1
    /\ pg.total = 3
    /\ Len(pg.txs) = 1

\* C8: Cosmos and Polkadot getTransactions with offset o and limit l return
\* the entries at positions o .. o+l-1 of the history, the window the
\* Bitcoin client's slice returns for the same history (SpecPage).
C8_OffsetIsInTransactions ==
    (pg.done /\ pg.client \in {"cosmos", "dot"}) =>
        pg.txs = slicePage("btc", pg.history, pg.offset, pg.limit)

\* C9: setPhrase(p) with a phrase that fails validatePhrase throws
\* 'Invalid phrase' and leaves the stored phrase and the address cache as
\* they were, so a following getAddress(i) returns what it returned before
\* (Spec).
C9_InvalidPhraseRejected ==
    [][(\E p \in PhraseArgs \ ValidPhrases, w \in Indices : SetPhrase(p, w)) =>
          /\ ~result'.ok
          /\ result'.err = "Invalid phrase"
          /\ phrase' = phrase
          /\ addrCache' = addrCache
          /\ \A i \in Indices :
                getAddress(chain', network', phrase', addrCache', i).addr
                   = getAddress(chain, network, phrase, addrCache, i).addr]_vars

\* C10: while no phrase is set (before the first successful setPhrase, or
\* after purgeClient) getAddress returns no address: it fails with 'Phrase
\* must be provided' (Bitcoin), 'Phrase not set' (Cosmos) or an error
\* (THORChain), and transfer / deposit fail without signing or broadcasting,
\* also while addresses of the purged phrase are still cached (Spec).
C10_NoPhraseNoAddress ==
    /\ result.op = "purgeClient" => phrase = ""
    /\ phrase = "" =>
        /\ result.op = "getAddress" =>
              /\ ~result.ok
              /\ result.addr = NoAddr
              /\ chain = "btc" => result.err = "Phrase must be provided"
              /\ chain = "cosmos" => result.err = "Phrase not set"
        /\ pc # "idle" =>
              /\ pc = "rejected"
              /\ log = <<>>
              /\ tx.signed = 0
              /\ tx.broadcasts = 0

C10_Witness ==
    /\ phrase = ""
    /\ result.op = "getAddress"
    /\ ~result.ok
    /\ \E p \in ValidPhrases : addrCache[p].def /\ addrCache[p].m[0] # NoAddr

\* C11: in an Ethereum transfer a given feeOptionKey wins over gasPrice and
\* gasLimit: the overrides of the sent transaction are the gas price of that
\* fee option (estimated, or the default if the estimate fails) and the
\* estimated gas limit (or the default gas limit), whatever gasPrice and
\* gasLimit the caller passed; without feeOptionKey the overrides are the
\* caller's gasPrice and gasLimit, the default gas limit if gasLimit is
\* absent (SpecEth).
C11_FeeOptionKeyWins ==
    eth.done =>
        IF eth.feeOptionKey # ""
        THEN /\ eth.overrides.gasPrice =
                  (IF eth.oracle = 0 THEN getDefaultGasPrices[eth.feeOptionKey]
                   ELSE GasVal("estimateGasPrices", eth.feeOptionKey, eth.oracle))
             /\ eth.overrides.gasLimit =
                  (IF eth.est = 0 THEN defaultGasLimit(eth.asset)
                   ELSE GasVal("estimateGasLimit", "", eth.est))
             /\ eth.overrides.gasPrice.kind # "caller"
             /\ eth.overrides.gasLimit.kind # "caller"
        ELSE /\ eth.overrides.gasPrice = eth.gasPrice
             /\ eth.overrides.gasLimit =
                  (IF eth.gasLimit = NoGas THEN defaultGasLimit(eth.asset) ELSE eth.gasLimit)

C11_Witness ==
    /\ eth.done
    /\ eth.hash
    /\ eth.feeOptionKey = "fast"
    /\ eth.gasPrice.kind = "caller"
    /\ eth.gasLimit.kind = "caller"
    /\ eth.overrides.gasPrice.kind = "estimateGasPrices"
    /\ eth.overrides.gasLimit.kind = "estimateGasLimit"

\* C12: getBalance of the Cosmos, THORChain and Binance clients, called
\* without an assets filter, returns an array that contains a balance of the
\* chain's main asset, for every account state the node returns
\* (SpecBalance).
C12_MainAssetAlwaysPresent ==
    (bal.done /\ bal.ok /\ ~bal.assets.given) =>
        \E i \in 1..Len(bal.result) : bal.result[i].asset = mainAsset(bal.client, bal.network)

\* C13: getTxWithRateLimitHandling never returns the body of a 429 response;
\* every 429 response is followed, after the wait, by exactly one new request
\* to the same URL; the value returned is the body of the first response with
\* a 2xx status, and any other status rejects without a retry (SpecRate).
C13_RateLimitRetry ==
    LET n == Len(rl.statuses)
        is2xx(st) == st >= 200 /\ st < 300
    IN /\ \A i \in 1..Len(rl.requests) : rl.requests[i] = rl.url
       /\ \A i \in 1..(n - 1) : rl.statuses[i] = TooManyRequests
       /\ rl.pc = "requesting" => Len(rl.requests) = n + 1
       /\ rl.pc = "waiting" =>
             /\ n >= 1 /\ rl.statuses[n] = TooManyRequests
             /\ Len(rl.requests) = n
       /\ rl.pc = "resolved" =>
             /\ n >= 1 /\ is2xx(rl.statuses[n])
             /\ rl.value = n
             /\ Len(rl.requests) = n
       /\ rl.pc = "rejected" =>
             /\ rl.value = 0
             /\ \/ Len(rl.requests) = n /\ n >= 1 /\ ~validateStatus(rl.statuses[n])
                \/ Len(rl.requests) = n + 1
       /\ rl.pc # "resolved" => rl.value = 0

C13_Witness ==
    /\ rl.pc = "resolved"
    /\ rl.statuses = <<TooManyRequests, TooManyRequests, 200>>
    /\ rl.requests = <<rl.url, rl.url, rl.url>>
    /\ rl.value = 3

\* C14: under the assumption that the server eventually answers a request
\* with a status other than 429 (and the timer fires), every call of
\* getTxWithRateLimitHandling eventually settles; the handler itself never
\* gives up: a 429 answer is followed by a wait and a retry however many
\* came before (SpecRateLive).
C14_RateLimitTerminates ==
    /\ (rl.pc \in {"requesting", "waiting"}) ~> (rl.pc \in {"resolved", "rejected"})
    /\ [][rl.pc = "waiting" => rl'.pc = "requesting"]_rl
    /\ [][(/\ rl.pc = "requesting"
            /\ Len(rl'.statuses) > Len(rl.statuses)
            /\ rl'.statuses[Len(rl'.statuses)] = TooManyRequests) => rl'.pc = "waiting"]_rl

C14_Witness ==
    /\ rl.pc = "waiting"
    /\ Len(rl.statuses) = MaxRetry
    /\ Len(rl.requests) = MaxRetry + 1

\* C15: Polkadot getDefaultFees(network) returns fees of type 'byte' whose
\* average, fast and fastest amounts are equal to one another, and for
\* testnet equal to baseAmount('15000000000', 12) (SpecDefaultFees).
C15_PolkadotDefaultFees ==
    fees.client = "dot" =>
        /\ fees.fees.type = "byte"
        /\ fees.fees.average.amount = fees.fees.fast.amount
        /\ fees.fees.fast.amount = fees.fees.fastest.amount
        /\ fees.network = "testnet" =>
              LET expected == baseAmount(<<1, 5, 0, 0, 0, 0, 0, 0, 0, 0, 0>>, 12)
              IN /\ fees.fees.average.amount = expected.amount
                 /\ fees.fees.fast.amount = expected.amount
                 /\ fees.fees.fastest.amount = expected.amount

C15_Witness ==
    /\ fees.client = "dot"
    /\ fees.network = "testnet"
    /\ fees.fees.type = "byte"
    /\ Len(fees.fees.fastest.amount) = 11

Range(s) == {s[i] : i \in 1..Len(s)}

\* C17: THORChain getTransactions merges the incoming and the outgoing search
\* results into one history in which every hash occurs at most once, ordered
\* by block height descending and, within one height, by hash ascending; the
\* history holds the transactions of either list that pass filterFn (the
\* first MAX_TX_COUNT of them) (SpecPage).
C17_MergedHistory ==
    (pg.done /\ pg.client = "thor") =>
        LET h == pg.history
            found == {t \in Range(pg.incoming) \cup Range(pg.outgoing) : passes(pg.filterFn, t)}
        IN /\ \A i, j \in 1..Len(h) : i # j => h[i].hash # h[j].hash
           /\ \A i \in 1..(Len(h) - 1) :
                 \/ h[i].height > h[i + 1].height
                 \/ h[i].height = h[i + 1].height /\ h[i].hash < h[i + 1].hash
           /\ Range(h) \subseteq found
           /\ Cardinality(found) <= MAX_TX_COUNT => Range(h) = found

C17_Witness ==
    /\ pg.done
    /\ pg.client = "thor"
    /\ pg.filterFn = 0
    /\ Len(pg.incoming) = 2
    /\ Len(pg.outgoing) = 2
    /\ Range(pg.incoming) \cap Range(pg.outgoing) # {}
    /\ Len(pg.history) = 3
    /\ pg.history[1].height = pg.history[2].height

\* C18: THORChain getTransactions: total is the number of distinct
\* transactions that pass filterFn, capped at MAX_TX_COUNT, whatever offset
\* and limit are; transactions rejected by filterFn are neither counted nor
\* returned, and |txs| <= min(limit, total) (SpecPage).
C18_TotalCapped ==
    (pg.done /\ pg.client = "thor") =>
        LET found == {t \in Range(pg.incoming) \cup Range(pg.outgoing) : passes(pg.filterFn, t)}
            distinct == Cardinality({t.hash : t \in found})
            l == IF pg.limit = Undefined \/ pg.limit = 0 THEN DefaultLimit ELSE pg.limit
        IN /\ pg.total = Min(distinct, MAX_TX_COUNT)
           /\ pg.total <= MAX_TX_COUNT
           /\ \A i \in 1..Len(pg.txs) : passes(pg.filterFn, pg.txs[i])
           /\ Len(pg.txs) <= Min(l, pg.total)

C18_Witness ==
    /\ pg.done
    /\ pg.client = "thor"
    /\ Cardinality(Range(pg.incoming) \cup Range(pg.outgoing)) > MAX_TX_COUNT
    /\ pg.filterFn = 0
    /\ pg.total = MAX_TX_COUNT
    /\ Len(pg.txs) = DefaultLimit

=============================================================================
